---- MODULE Spec2Model ----
(***************************************************************************)
(* Model of the tool tester orchestrator, tools/tool_tester/engine.py      *)
(* (class ToolTesterEngine).  One orchestrator process executes run(args): *)
(* it loads the manifest, tests tools one at a time, overwrites the status *)
(* file on every progress tick and writes one results file at the end.     *)
(*                                                                         *)
(* The environment supplies: the command line (mode, argTool), the         *)
(* manifest document, and - read at the moment test_tool looks at them -   *)
(* the filesystem under a tool's root and the behaviour of its child       *)
(* process.  Writes to the status file and to the results file can fail    *)
(* (OSError); specification Spec contains these write faults,              *)
(* specification SpecWritable is the same program in an environment whose  *)
(* log directory stays writable.                                           *)
(***************************************************************************)
EXTENDS Integers, Sequences, FiniteSets, TLC

\* ------------------------------------------------------------------ bounds
MaxTools == 2          \* longest manifest, and number of distinct tool ids
MaxExit == 2           \* largest exit code a child process returns
StatusChunks == 2      \* pieces in which a status document reaches the disk
MaxListed == 3         \* longest manifest the GUI is followed with
MaxClock == 6          \* last clock tick the runs are followed to
TicksPerSecond == 2    \* clock ticks in one second
NumRuns == 2           \* orchestrator runs followed side by side

\* ------------------------------------------------------- program constants
TIMEOUT == 30          \* subprocess.run(..., timeout=30)

\* ------------------------------------------------------------ value spaces
ToolIds == 1..MaxTools
ExitCodes == 0..MaxExit
Durations == {1, TIMEOUT, TIMEOUT + 1}
Modes == {"test", "tool", "all"}

\* A manifest entry.  display_name and path are determined by the id.
ToolRegistration(k) == [id |-> k, display_name |-> k, path |-> k]
NoTool == ToolRegistration(0)

RECURSIVE SeqsUpTo(_, _)
SeqsUpTo(S, n) ==
    IF n = 0 THEN {<<>>}
    ELSE LET shorter == SeqsUpTo(S, n - 1)
         IN  shorter \cup {Append(s, x) : s \in shorter, x \in S}

Injective(s) == \A a, b \in 1..Len(s) : s[a] = s[b] => a = b

\* The manifest document studio_config.json: missing, not valid JSON, or a
\* document whose "tools" list holds registrations with unique ids.
Manifests ==
    {[kind |-> "absent", tools |-> <<>>], [kind |-> "malformed", tools |-> <<>>]}
    \cup {[kind |-> "ok", tools |-> s] : s \in {q \in SeqsUpTo(ToolIds, MaxTools) : Injective(q)}}

\* What test_tool finds when it looks at one tool: which paths exist under the
\* tool's root, and what the child process does when it is spawned.  Files
\* below a missing root do not exist; the child is described only when all
\* four paths exist (it is not spawned otherwise).
NoChild == [kind |-> "none", code |-> 0, dur |-> 0]
Children ==
    {[kind |-> "spawn_fault", code |-> 0, dur |-> 0]}
    \cup {[kind |-> "exit", code |-> c, dur |-> d] : c \in ExitCodes, d \in Durations}
AllPresent(env) == env.root /\ env.engine /\ env.config /\ env.venv
Envs ==
    {e \in [root : BOOLEAN, engine : BOOLEAN, config : BOOLEAN, venv : BOOLEAN,
            child : Children \cup {NoChild}] :
        /\ (~e.root => ~e.engine /\ ~e.config /\ ~e.venv)
        /\ (e.child = NoChild <=> ~AllPresent(e))}

Msg(t, x, y) == [text |-> t, a |-> x, b |-> y]
NoStatus == [status |-> "none", progress |-> 0, message |-> Msg("", 0, 0)]
NoExc == [kind |-> "none", from |-> "none"]
NoResult == [tool_id |-> 0, tool_name |-> 0, status |-> "unknown",
             message |-> Msg("", 0, 0), details |-> [ran |-> FALSE, exit_code |-> 0]]
NoFile == [exists |-> FALSE, written |-> FALSE, content |-> <<>>]
Configs == {"ok", "absent", "malformed"}

VARIABLES
    mode,          \* args.test / args.tool / neither
    argTool,       \* args.tool (0 when not given)
    manifest,      \* studio_config.json
    pc,            \* position of the orchestrator in run()
    ret,           \* where update_status returns to
    pending,       \* the arguments of the update_status call in progress
    tools,         \* local "tools" of test_all_tools / test_single_tool
    i,             \* loop index of test_all_tools (1-based)
    tool_info,     \* the registration under test
    result,        \* the value test_tool returned
    test_results,  \* self.test_results
    probes,        \* what each test_tool call found (filesystem, child), in call order
    statusFile,    \* logs/tool_tester_status.json
    progressLog,   \* every progress value written to the status file, in order
    resultsFile,   \* logs/test_results_<timestamp>.json of this run
    resultsWrites, \* number of times the results file was written
    spawned,       \* number of child processes started
    exc,           \* the exception in flight or handled: kind and raising frame
    exit_code,     \* value returned by run(): -1 while running
    config,        \* the orchestrator's own config.json: ok, absent or malformed
    child,         \* the child process of the tool under test: none, running, exited, killed
    statusLen,     \* how many pieces of the document in statusFile are on disk
    summaries,     \* number of calls of generate_summary
    proc_code,     \* exit status of the orchestrator process: -1 while it runs
    listed,        \* GUI: ids shown in lst_tools (the enabled tools of the manifest)
    selection,     \* GUI: the tool_ids argument of start_testing
    gui_proc,      \* GUI: self.test_process: none, running, finished
    ui,            \* GUI: buttons, progress bar, status label, counters, timer
    gui_test_results, \* GUI: self.test_results
    oldFile,       \* a results file of an earlier run lies in logs/
    gui_exc,       \* GUI: exception that left a slot ("none" when there is none)
    polled,        \* GUI: what the last check_status met when it read the status file
    now,           \* the wall clock, in ticks
    runs,          \* per run: not started / running / done, start tick, results-file name
    logs_dir       \* per results-file name: the run whose results the file holds (0: no file)

vars == <<mode, argTool, manifest, pc, ret, pending, tools, i, tool_info, result,
          test_results, probes, statusFile, progressLog, resultsFile,
          resultsWrites, spawned, exc, exit_code, config, child, statusLen,
          summaries, proc_code, listed, selection, gui_proc, ui, gui_test_results,
          oldFile, gui_exc, polled, now, runs, logs_dir>>

\* The state of the GUI process and of what it alone looks at.
guiVars == <<listed, selection, gui_proc, ui, gui_test_results, oldFile, gui_exc, polled>>

\* The wall clock and the runs followed against it.
clockVars == <<now, runs, logs_dir>>

\* What the command line and the installation give the process.
inputs == <<mode, argTool, manifest, config>>

\* ------------------------------------------------------------ pure helpers

\* int(((i + 1) / total_tools) * 100), k = i + 1 tools done
Progress(k, total) == (k * 100) \div total

RECURSIVE CountStatus(_, _)
CountStatus(rs, s) ==
    IF rs = <<>> THEN 0
    ELSE (IF Head(rs).status = s THEN 1 ELSE 0) + CountStatus(Tail(rs), s)

\* load_studio_config: the "tools" list, [] when the file is missing.
load_studio_config(m) == IF m.kind = "ok" THEN m.tools ELSE <<>>

\* next((t for t in tools if t['id'] == tool_id), None): first match or 0
RECURSIVE FindTool(_, _)
FindTool(ts, id) ==
    IF ts = <<>> THEN 0
    ELSE IF Head(ts) = id THEN id ELSE FindTool(Tail(ts), id)

\* An outcome of test_tool: the fields it sets on "result".
Outcome(s, m, ran, code) ==
    [status |-> s, message |-> m, details |-> [ran |-> ran, exit_code |-> code]]
Undecided == Outcome("unknown", Msg("", 0, 0), FALSE, 0)

\* Variant of validate that looks for config.json before engine.py.
validate_config_first(t, env) ==
    IF ~env.root THEN Outcome("fail", Msg("Tool directory not found", t.path, 0), FALSE, 0)
    ELSE IF ~env.config THEN Outcome("fail", Msg("No config.json found", 0, 0), FALSE, 0)
    ELSE IF ~env.engine THEN Outcome("skip", Msg("No engine.py found (GUI-only tool)", 0, 0), FALSE, 0)
    ELSE IF ~env.venv THEN Outcome("fail", Msg("Virtual environment not found", 0, 0), FALSE, 0)
    ELSE Undecided

\* test_tool, lines 102-131: the four existence checks in order; the first
\* one that fails decides the result, Undecided when all four pass.
validate(t, env) ==
    IF ~env.root THEN Outcome("fail", Msg("Tool directory not found", t.path, 0), FALSE, 0)
    ELSE IF ~env.engine THEN Outcome("skip", Msg("No engine.py found (GUI-only tool)", 0, 0), FALSE, 0)
    ELSE IF ~env.config THEN Outcome("fail", Msg("No config.json found", 0, 0), FALSE, 0)
    ELSE IF ~env.venv THEN Outcome("fail", Msg("Virtual environment not found", 0, 0), FALSE, 0)
    ELSE Undecided

\* Variant of run_child whose handler for a child that cannot be started
\* leaves the result as it was initialised.
run_child_unclassified(c) ==
    IF c.kind = "spawn_fault" THEN Undecided
    ELSE IF c.dur > TIMEOUT THEN Outcome("fail", Msg("Test timed out (>30s)", 0, 0), FALSE, 0)
    ELSE IF c.code = 0 THEN Outcome("pass", Msg("Test passed successfully", 0, 0), TRUE, 0)
    ELSE Outcome("fail", Msg("Test failed with exit code", c.code, 0), TRUE, c.code)

\* Variant of run_child that waits for the child without a time bound.
run_child_no_timeout(c) ==
    IF c.kind = "spawn_fault" THEN Outcome("fail", Msg("Exception", 0, 0), FALSE, 0)
    ELSE IF c.code = 0 THEN Outcome("pass", Msg("Test passed successfully", 0, 0), TRUE, 0)
    ELSE Outcome("fail", Msg("Test failed with exit code", c.code, 0), TRUE, c.code)

\* test_tool, lines 134-168: subprocess.run with timeout=30 and the
\* classification of what it returns or raises.  A child that needs more than
\* TIMEOUT raises TimeoutExpired (the code's message: ">30s"); a child that
\* cannot be started raises another exception.
run_child(c) ==
    IF c.kind = "spawn_fault" THEN Outcome("fail", Msg("Exception", 0, 0), FALSE, 0)
    ELSE IF c.dur > TIMEOUT THEN Outcome("fail", Msg("Test timed out (>30s)", 0, 0), FALSE, 0)
    ELSE IF c.code = 0 THEN Outcome("pass", Msg("Test passed successfully", 0, 0), TRUE, 0)
    ELSE Outcome("fail", Msg("Test failed with exit code", c.code, 0), TRUE, c.code)

\* Variant of test_tool_result that skips every tool after the first result
\* of the run.
test_tool_result_after_first(t, env) ==
    LET v == validate(t, env)
        o == IF test_results # <<>>
             THEN Outcome("skip", Msg("No engine.py found (GUI-only tool)", 0, 0), FALSE, 0)
             ELSE IF v = Undecided THEN run_child(env.child) ELSE v
    IN  [tool_id |-> t.id, tool_name |-> t.display_name, status |-> o.status,
         message |-> o.message, details |-> o.details]

\* The body of test_tool after its status update, lines 94-170: the result
\* record, decided by the checks or else by the child process.
test_tool_result(t, env) ==
    LET v == validate(t, env)
        o == IF v = Undecided THEN run_child(env.child) ELSE v
    IN  [tool_id |-> t.id, tool_name |-> t.display_name, status |-> o.status,
         message |-> o.message, details |-> o.details]

\* Variant of summary_status that reports errors only above one failure.
summary_status_tolerant(rs) ==
    LET passed == CountStatus(rs, "pass")
        failed == CountStatus(rs, "fail")
    IN  IF failed > 1
        THEN [status |-> "completed_with_errors", progress |-> 100,
              message |-> Msg("passed, failed", passed, failed)]
        ELSE [status |-> "completed", progress |-> 100,
              message |-> Msg("All tests passed", passed, 0)]

\* The final status generate_summary chooses.
summary_status(rs) ==
    LET passed == CountStatus(rs, "pass")
        failed == CountStatus(rs, "fail")
    IN  IF failed > 0
        THEN [status |-> "completed_with_errors", progress |-> 100,
              message |-> Msg("passed, failed", passed, failed)]
        ELSE [status |-> "completed", progress |-> 100,
              message |-> Msg("All tests passed", passed, 0)]

\* Variant of run_exit_value that counts skipped tools instead of failed ones.
run_exit_value_skips(rs) == IF CountStatus(rs, "skip") = 0 THEN 0 ELSE 1

\* run(), lines 268-269: return 0 if failed == 0 else 1
run_exit_value(rs) == IF CountStatus(rs, "fail") = 0 THEN 0 ELSE 1

\* The function whose frame issued the update_status call that returns to r.
Frame(r) ==
    CASE r = "test_tool_checks" -> "test_tool"
      [] r \in {"all_load", "all_next"} -> "test_all_tools"
      [] r = "write_results" -> "generate_summary"
      [] r = "return_1" -> "run_except"
      [] r = "return_0" -> "run"
      [] r = "run_exit_code" -> IF mode = "tool" THEN "test_single_tool" ELSE "test_all_tools"
      [] OTHER -> "none"

\* ------------------------------------------------------------------- Init
\* The state of a freshly started orchestrator process.
EngineFresh ==
    /\ ret = "none"
    /\ pending = NoStatus
    /\ tools = <<>>
    /\ i = 0
    /\ tool_info = NoTool
    /\ result = NoResult
    /\ test_results = <<>>
    /\ probes = <<>>
    /\ progressLog = <<>>
    /\ spawned = 0
    /\ exc = NoExc
    /\ exit_code = -1
    /\ child = "none"
    /\ summaries = 0
    /\ proc_code = -1

EngineStart == pc = "main" /\ EngineFresh

\* The main window after __init__ and load_ui, as far as it is used here.
NoSelection == [all |-> TRUE, ids |-> {}]
UiIdle == [start_enabled |-> TRUE, stop_enabled |-> FALSE, polling |-> FALSE,
           closed |-> FALSE, progress |-> 0, message |-> Msg("Ready", 0, 0),
           passed |-> 0, failed |-> 0, skipped |-> 0]
GuiIdle ==
    /\ selection = NoSelection
    /\ gui_proc = "none"
    /\ ui = UiIdle
    /\ gui_test_results = <<>>
    /\ gui_exc = "none"
    /\ polled = "none"

\* strftime("%Y%m%d_%H%M%S") of a time: the second it lies in.
timestamp(t) == t \div TicksPerSecond
Runs == 1..NumRuns
Timestamps == {timestamp(t) : t \in 0..MaxClock}
NoRun == [state |-> "not_started", started |-> 0, name |-> 0]
ClockIdle ==
    /\ now = 0
    /\ runs = [r \in Runs |-> NoRun]
    /\ logs_dir = [n \in Timestamps |-> 0]

\* One orchestrator process started from the command line.
Init ==
    /\ mode \in Modes
    /\ argTool \in (IF mode = "tool" THEN ToolIds ELSE {0})
    /\ manifest \in Manifests
    /\ config \in Configs
    /\ statusFile = NoStatus
    /\ statusLen = 0
    /\ resultsFile = NoFile
    /\ resultsWrites = 0
    /\ EngineStart
    /\ listed = <<>>
    /\ oldFile = FALSE
    /\ GuiIdle
    /\ ClockIdle

\* ---------------------------------------------------------------- actions
\* Call update_status(status, progress, message) and continue at r.
CallUpdateStatus(s, p, m, r) ==
    /\ pending' = [status |-> s, progress |-> p, message |-> m]
    /\ ret' = r
    /\ pc' = "update_status"

\* main() and __init__, lines 18-32 and 284-286: load the orchestrator's own
\* configuration.  A missing file prints a message and calls sys.exit(1); a
\* file that is not valid JSON raises JSONDecodeError out of main(), which
\* ends the process with a traceback and exit status 1.  Neither path writes
\* the status file.
main_init ==
    /\ pc = "main"
    /\ IF config = "ok"
       THEN /\ pc' = "run"
            /\ UNCHANGED <<exc, proc_code>>
       ELSE /\ pc' = "exited"
            /\ proc_code' = 1
            /\ exc' = [kind |-> (IF config = "absent" THEN "SystemExit" ELSE "JSONDecodeError"),
                       from |-> "load_config"]
    /\ UNCHANGED <<guiVars, clockVars, inputs, child, statusLen, summaries, ret, pending, tools, i, tool_info,
                   result, test_results, probes, statusFile, progressLog, resultsFile,
                   resultsWrites, spawned, exit_code>>

\* main(), lines 287-289: sys.exit(exit_code) with the value run() returned.
main_exit ==
    /\ pc = "done"
    /\ proc_code' = exit_code
    /\ pc' = "exited"
    /\ UNCHANGED <<guiVars, clockVars, inputs, child, statusLen, summaries, ret, pending, tools, i, tool_info,
                   result, test_results, probes, statusFile, progressLog, resultsFile,
                   resultsWrites, spawned, exc, exit_code>>

\* main(), line 287, when run() raised: the exception leaves main() and the
\* interpreter ends the process with exit status 1.
main_crash ==
    /\ pc = "propagated"
    /\ proc_code' = 1
    /\ pc' = "exited"
    /\ UNCHANGED <<guiVars, clockVars, inputs, child, statusLen, summaries, ret, pending, tools, i, tool_info,
                   result, test_results, probes, statusFile, progressLog, resultsFile,
                   resultsWrites, spawned, exc, exit_code>>

\* Variant of run_dispatch that ignores the self-test flag.
run_dispatch_no_self_test ==
    /\ pc = "run"
    /\ pc' = (IF mode = "tool" THEN "test_single_tool" ELSE "test_all_tools")
    /\ UNCHANGED <<pending, ret>>
    /\ UNCHANGED <<guiVars, clockVars, inputs, child, statusLen, summaries, proc_code, tools, i, tool_info,
                   result, test_results, probes, statusFile, progressLog, resultsFile,
                   resultsWrites, spawned, exc, exit_code>>

\* run(), lines 255-265: self-test mode, or dispatch on args.tool.
run_dispatch ==
    /\ pc = "run"
    /\ IF mode = "test"
       THEN CallUpdateStatus("test_mode", 100, Msg("Test mode: Engine operational", 0, 0), "return_0")
       ELSE /\ pc' = (IF mode = "tool" THEN "test_single_tool" ELSE "test_all_tools")
            /\ UNCHANGED <<pending, ret>>
    /\ UNCHANGED <<guiVars, clockVars, inputs, child, statusLen, summaries, proc_code, tools, i, tool_info,
                   result, test_results, probes, statusFile, progressLog, resultsFile,
                   resultsWrites, spawned, exc, exit_code>>

\* update_status, line 65: open(status_file, 'w') truncates the status file;
\* the document that is about to be written is not on disk yet.
update_status ==
    /\ pc = "update_status"
    /\ statusFile' = pending
    /\ statusLen' = 0
    /\ pc' = "status_dump"
    /\ UNCHANGED <<guiVars, clockVars, inputs, child, summaries, proc_code, ret, pending, tools, i, tool_info,
                   result, test_results, probes, progressLog, resultsFile, resultsWrites,
                   spawned, exc, exit_code>>

\* update_status, line 66: json.dump and the close of the file put the
\* document on disk piece by piece; after the last piece the call returns.
update_status_dump ==
    /\ pc = "status_dump"
    /\ statusLen' = statusLen + 1
    /\ IF statusLen' = StatusChunks
       THEN /\ progressLog' = Append(progressLog, pending.progress)
            /\ pc' = ret
       ELSE UNCHANGED <<progressLog, pc>>
    /\ UNCHANGED <<guiVars, clockVars, inputs, child, summaries, proc_code, ret, pending, tools, i, tool_info,
                   result, test_results, probes, statusFile, resultsFile, resultsWrites,
                   spawned, exc, exit_code>>

\* return 0 of the self-test branch.
run_return_0 ==
    /\ pc = "return_0"
    /\ exit_code' = 0
    /\ pc' = "done"
    /\ UNCHANGED <<guiVars, clockVars, inputs, child, statusLen, summaries, proc_code, ret, pending, tools, i, tool_info, result,
                   test_results, probes, statusFile, progressLog, resultsFile,
                   resultsWrites, spawned, exc>>

\* test_all_tools, lines 174-175: announce the run.
test_all_tools_start ==
    /\ pc = "test_all_tools"
    /\ CallUpdateStatus("running", 0, Msg("Loading tools...", 0, 0), "all_load")
    /\ UNCHANGED <<guiVars, clockVars, inputs, child, statusLen, summaries, proc_code, tools, i, tool_info, result, test_results,
                   probes, statusFile, progressLog, resultsFile, resultsWrites,
                   spawned, exc, exit_code>>

\* Variant of test_all_tools_load that goes on to the summary when there are
\* no tools instead of returning.
test_all_tools_load_no_return ==
    /\ pc = "all_load"
    /\ manifest.kind # "malformed"
    /\ tools' = load_studio_config(manifest)
    /\ IF tools' = <<>>
       THEN /\ CallUpdateStatus("error", 0, Msg("No tools to test", 0, 0), "generate_summary")
            /\ UNCHANGED <<i, tool_info>>
       ELSE /\ i' = 1
            /\ tool_info' = ToolRegistration(tools'[1])
            /\ pc' = "test_tool"
            /\ UNCHANGED <<pending, ret>>
    /\ UNCHANGED <<guiVars, clockVars, inputs, child, statusLen, summaries, proc_code, result, test_results, probes, statusFile,
                   progressLog, resultsFile, resultsWrites, spawned, exc, exit_code>>

\* test_all_tools, lines 177-187: load the manifest; with no tools report an
\* error and return to run(), otherwise enter the loop at the first tool.
test_all_tools_load ==
    /\ pc = "all_load"
    /\ manifest.kind # "malformed"
    /\ tools' = load_studio_config(manifest)
    /\ IF tools' = <<>>
       THEN /\ CallUpdateStatus("error", 0, Msg("No tools to test", 0, 0), "run_exit_code")
            /\ UNCHANGED <<i, tool_info>>
       ELSE /\ i' = 1
            /\ tool_info' = ToolRegistration(tools'[1])
            /\ pc' = "test_tool"
            /\ UNCHANGED <<pending, ret>>
    /\ UNCHANGED <<guiVars, clockVars, inputs, child, statusLen, summaries, proc_code, result, test_results, probes, statusFile,
                   progressLog, resultsFile, resultsWrites, spawned, exc, exit_code>>

\* load_studio_config on a document that is not valid JSON: json.load raises
\* JSONDecodeError, which the except FileNotFoundError clause does not catch;
\* the exception leaves test_all_tools / test_single_tool and reaches run().
load_studio_config_malformed ==
    /\ pc \in {"all_load", "test_single_tool"}
    /\ manifest.kind = "malformed"
    /\ exc' = [kind |-> "JSONDecodeError", from |-> "load_studio_config"]
    /\ pc' = "run_except"
    /\ UNCHANGED <<guiVars, clockVars, inputs, child, statusLen, summaries, proc_code, ret, pending, tools, i, tool_info, result,
                   test_results, probes, statusFile, progressLog, resultsFile,
                   resultsWrites, spawned, exit_code>>

\* test_single_tool, lines 198-208: load the manifest and look the id up.
test_single_tool ==
    /\ pc = "test_single_tool"
    /\ manifest.kind # "malformed"
    /\ tools' = load_studio_config(manifest)
    /\ IF FindTool(tools', argTool) = 0
       THEN /\ CallUpdateStatus("error", 0, Msg("Tool not found", argTool, 0), "run_exit_code")
            /\ UNCHANGED tool_info
       ELSE /\ tool_info' = ToolRegistration(FindTool(tools', argTool))
            /\ pc' = "test_tool"
            /\ UNCHANGED <<pending, ret>>
    /\ UNCHANGED <<guiVars, clockVars, inputs, child, statusLen, summaries, proc_code, i, result, test_results, probes, statusFile,
                   progressLog, resultsFile, resultsWrites, spawned, exc, exit_code>>

\* test_tool, lines 88-92: the per-tool "running" update with progress 0.
test_tool_start ==
    /\ pc = "test_tool"
    /\ CallUpdateStatus("running", 0, Msg("Testing", tool_info.id, 0), "test_tool_checks")
    /\ UNCHANGED <<guiVars, clockVars, inputs, child, statusLen, summaries, proc_code, tools, i, tool_info, result, test_results,
                   probes, statusFile, progressLog, resultsFile, resultsWrites,
                   spawned, exc, exit_code>>

\* Variant of test_tool_wait whose timeout leaves the child running.
test_tool_wait_no_kill ==
    /\ pc = "child_wait"
    /\ child' = (IF probes[Len(probes)].child.dur > TIMEOUT THEN "running" ELSE "exited")
    /\ result' = test_tool_result(tool_info, probes[Len(probes)])
    /\ pc' = (IF mode = "all" THEN "all_append" ELSE "single_append")
    /\ UNCHANGED <<guiVars, clockVars, inputs, statusLen, summaries, proc_code, ret, pending, tools, i,
                   tool_info, test_results, probes, statusFile, progressLog, resultsFile,
                   resultsWrites, spawned, exc, exit_code>>

\* Variant of test_tool_probe that starts the child before it looks at the
\* filesystem.
test_tool_probe_spawn_first(E) ==
    /\ pc = "test_tool_checks"
    /\ \E env \in E :
          /\ probes' = Append(probes, env)
          /\ IF env.child.kind = "exit"
             THEN /\ child' = "running"
                  /\ spawned' = spawned + 1
                  /\ pc' = "child_wait"
                  /\ UNCHANGED result
             ELSE /\ child' = "running"
                  /\ spawned' = spawned + 1
                  /\ result' = test_tool_result(tool_info, env)
                  /\ pc' = (IF mode = "all" THEN "all_append" ELSE "single_append")
    /\ UNCHANGED <<guiVars, clockVars, inputs, statusLen, summaries, proc_code, ret, pending, tools, i,
                   tool_info, test_results, statusFile, progressLog, resultsFile,
                   resultsWrites, exc, exit_code>>

\* test_tool, lines 94-143: look at the filesystem (one of the states E).  A
\* failing check returns its result at once; with all four paths present
\* subprocess.run starts the child (or fails to start it, which returns a
\* fail result).
test_tool_probe(E) ==
    /\ pc = "test_tool_checks"
    /\ \E env \in E :
          /\ probes' = Append(probes, env)
          /\ IF validate(tool_info, env) = Undecided /\ env.child.kind = "exit"
             THEN /\ child' = "running"
                  /\ spawned' = spawned + 1
                  /\ pc' = "child_wait"
                  /\ UNCHANGED result
             ELSE /\ result' = test_tool_result(tool_info, env)
                  /\ pc' = (IF mode = "all" THEN "all_append" ELSE "single_append")
                  /\ UNCHANGED <<child, spawned>>
    /\ UNCHANGED <<guiVars, clockVars, inputs, statusLen, summaries, proc_code, ret, pending, tools, i,
                   tool_info, test_results, statusFile, progressLog, resultsFile,
                   resultsWrites, exc, exit_code>>

\* test_tool in any state of the filesystem and with any child behaviour.
test_tool_checks == test_tool_probe(Envs)

\* test_tool, lines 137-170: subprocess.run waits for the child at most
\* TIMEOUT; a child that is still running then is killed and reaped before
\* TimeoutExpired is raised.  The outcome is classified and returned.
test_tool_wait ==
    /\ pc = "child_wait"
    /\ child' = (IF probes[Len(probes)].child.dur > TIMEOUT THEN "killed" ELSE "exited")
    /\ result' = test_tool_result(tool_info, probes[Len(probes)])
    /\ pc' = (IF mode = "all" THEN "all_append" ELSE "single_append")
    /\ UNCHANGED <<guiVars, clockVars, inputs, statusLen, summaries, proc_code, ret, pending, tools, i,
                   tool_info, test_results, probes, statusFile, progressLog, resultsFile,
                   resultsWrites, spawned, exc, exit_code>>

\* Variant of test_all_tools_append that puts the newest result first.
test_all_tools_append_front ==
    /\ pc = "all_append"
    /\ test_results' = <<result>> \o test_results
    /\ CallUpdateStatus("running", Progress(i, Len(tools)),
                        Msg("Tested i/total tools", i, Len(tools)), "all_next")
    /\ UNCHANGED <<guiVars, clockVars, inputs, child, statusLen, summaries, proc_code, tools, i, tool_info, result, probes,
                   statusFile, progressLog, resultsFile, resultsWrites, spawned, exc,
                   exit_code>>

\* test_all_tools, lines 188-191: append the result and report progress.
test_all_tools_append ==
    /\ pc = "all_append"
    /\ test_results' = Append(test_results, result)
    /\ CallUpdateStatus("running", Progress(i, Len(tools)),
                        Msg("Tested i/total tools", i, Len(tools)), "all_next")
    /\ UNCHANGED <<guiVars, clockVars, inputs, child, statusLen, summaries, proc_code, tools, i, tool_info, result, probes,
                   statusFile, progressLog, resultsFile, resultsWrites, spawned, exc,
                   exit_code>>

\* test_all_tools, lines 187 and 194: next tool, or the summary after the last.
test_all_tools_next ==
    /\ pc = "all_next"
    /\ IF i < Len(tools)
       THEN /\ i' = i + 1
            /\ tool_info' = ToolRegistration(tools[i + 1])
            /\ pc' = "test_tool"
       ELSE /\ pc' = "generate_summary"
            /\ UNCHANGED <<i, tool_info>>
    /\ UNCHANGED <<guiVars, clockVars, inputs, child, statusLen, summaries, proc_code, ret, pending, tools, result, test_results,
                   probes, statusFile, progressLog, resultsFile, resultsWrites,
                   spawned, exc, exit_code>>

\* Variant of test_single_tool_append that returns without the summary.
test_single_tool_append_no_summary ==
    /\ pc = "single_append"
    /\ test_results' = Append(test_results, result)
    /\ pc' = "run_exit_code"
    /\ UNCHANGED <<guiVars, clockVars, inputs, child, statusLen, summaries, proc_code, ret, pending, tools, i,
                   tool_info, result, probes, statusFile, progressLog, resultsFile,
                   resultsWrites, spawned, exc, exit_code>>

\* test_single_tool, lines 209-210: append the result, then the summary.
test_single_tool_append ==
    /\ pc = "single_append"
    /\ test_results' = Append(test_results, result)
    /\ pc' = "generate_summary"
    /\ UNCHANGED <<guiVars, clockVars, inputs, child, statusLen, summaries, proc_code, ret, pending, tools, i, tool_info, result,
                   probes, statusFile, progressLog, resultsFile, resultsWrites,
                   spawned, exc, exit_code>>

\* generate_summary, lines 214-244: count and write the final status.
generate_summary ==
    /\ pc = "generate_summary"
    /\ summaries' = summaries + 1
    /\ LET fin == summary_status(test_results)
       IN  CallUpdateStatus(fin.status, fin.progress, fin.message, "write_results")
    /\ UNCHANGED <<guiVars, clockVars, inputs, child, statusLen, proc_code, tools, i, tool_info, result,
                   test_results, probes, statusFile, progressLog, resultsFile,
                   resultsWrites, spawned, exc, exit_code>>

\* generate_summary, lines 247-248: open(results_file, 'w') creates the
\* results file under its final name, still empty.
write_results ==
    /\ pc = "write_results"
    /\ resultsFile' = [exists |-> TRUE, written |-> FALSE, content |-> <<>>]
    /\ pc' = "results_dump"
    /\ UNCHANGED <<guiVars, clockVars, inputs, child, statusLen, summaries, proc_code, ret, pending, tools, i,
                   tool_info, result, test_results, probes, statusFile, progressLog,
                   resultsWrites, spawned, exc, exit_code>>

\* generate_summary, lines 249-251: json.dump and the close of the file put
\* the results on disk; generate_summary and its caller return to run().
write_results_dump ==
    /\ pc = "results_dump"
    /\ resultsFile' = [exists |-> TRUE, written |-> TRUE, content |-> test_results]
    /\ resultsWrites' = resultsWrites + 1
    /\ pc' = "run_exit_code"
    /\ UNCHANGED <<guiVars, clockVars, inputs, child, statusLen, summaries, proc_code, ret, pending, tools, i,
                   tool_info, result, test_results, probes, statusFile, progressLog,
                   spawned, exc, exit_code>>

\* open(results_file, 'w') fails: OSError leaves generate_summary and its
\* caller and reaches run().
write_results_fault ==
    /\ pc = "write_results"
    /\ exc' = [kind |-> "OSError", from |-> "generate_summary"]
    /\ pc' = "run_except"
    /\ UNCHANGED <<guiVars, clockVars, inputs, child, statusLen, summaries, proc_code, ret, pending, tools, i, tool_info, result,
                   test_results, probes, statusFile, progressLog, resultsFile,
                   resultsWrites, spawned, exit_code>>

\* open(status_file, 'w') fails: OSError leaves update_status and the frame
\* that called it.  Raised in the try block of run() it reaches the except
\* clause; raised by the except clause itself it leaves run().
update_status_fault ==
    /\ pc = "update_status"
    /\ exc' = [kind |-> "OSError", from |-> Frame(ret)]
    /\ pc' = (IF ret = "return_1" THEN "propagated" ELSE "run_except")
    /\ UNCHANGED <<guiVars, clockVars, inputs, child, statusLen, summaries, proc_code, ret, pending, tools, i, tool_info, result,
                   test_results, probes, statusFile, progressLog, resultsFile,
                   resultsWrites, spawned, exit_code>>

\* run(), lines 267-269: exit code from the results.
run_exit_code ==
    /\ pc = "run_exit_code"
    /\ exit_code' = run_exit_value(test_results)
    /\ pc' = "done"
    /\ UNCHANGED <<guiVars, clockVars, inputs, child, statusLen, summaries, proc_code, ret, pending, tools, i, tool_info, result,
                   test_results, probes, statusFile, progressLog, resultsFile,
                   resultsWrites, spawned, exc>>

\* run(), lines 271-273: the top-level handler reports the fault.
run_except ==
    /\ pc = "run_except"
    /\ CallUpdateStatus("error", 0, Msg(exc.kind, 0, 0), "return_1")
    /\ UNCHANGED <<guiVars, clockVars, inputs, child, statusLen, summaries, proc_code, tools, i, tool_info, result, test_results,
                   probes, statusFile, progressLog, resultsFile, resultsWrites,
                   spawned, exc, exit_code>>

\* run(), line 274.
run_return_1 ==
    /\ pc = "return_1"
    /\ exit_code' = 1
    /\ pc' = "done"
    /\ UNCHANGED <<guiVars, clockVars, inputs, child, statusLen, summaries, proc_code, ret, pending, tools, i, tool_info, result,
                   test_results, probes, statusFile, progressLog, resultsFile,
                   resultsWrites, spawned, exc>>

\* ------------------------------------------------------------ the GUI
\* main_gui.py, class ToolTesterGUI.  The GUI starts the orchestrator as a
\* QProcess, polls the status file while it runs, may kill it, and reads
\* the latest results file when it has finished.  SpecGUI follows the GUI
\* through one test run.

\* Manifests the GUI is followed with: missing, or tools 1..n in order.
GUIManifests ==
    {[kind |-> "absent", tools |-> <<>>]}
    \cup {[kind |-> "ok", tools |-> [k \in 1..n |-> k]] : n \in 0..MaxListed}

\* Tool states the GUI is followed with: root missing, and a child that exits
\* 0 well within the time bound.
GUIEnvs ==
    {e \in Envs : \/ ~e.root
                  \/ (AllPresent(e) /\ e.child.kind = "exit" /\ e.child.code = 0
                      /\ e.child.dur < TIMEOUT)}

\* refresh_tool_list, lines 134-140: the list shows the enabled tools of the
\* manifest, in manifest order.
RECURSIVE SubSeqs(_)
SubSeqs(q) ==
    IF q = <<>> THEN {<<>>}
    ELSE LET rest == SubSeqs(Tail(q))
         IN  rest \cup {<<Head(q)>> \o r : r \in rest}
Range(q) == {q[k] : k \in 1..Len(q)}

\* What start_testing can be called with: None (test_all_tools), or the
\* non-empty selection of list items (test_selected_tools).
Selections(lst) ==
    {NoSelection} \cup {[all |-> FALSE, ids |-> S] : S \in (SUBSET Range(lst)) \ {{}}}

\* start_testing, lines 186-202: the command line.  --tool is passed only for
\* a selection of exactly one id; every other call passes no tool at all.
cmd_mode(sel) == IF ~sel.all /\ Cardinality(sel.ids) = 1 THEN "tool" ELSE "all"
cmd_tool(sel) == IF cmd_mode(sel) = "tool" THEN CHOOSE t \in sel.ids : TRUE ELSE 0

\* An earlier run's results file, when there is one.
OldResults ==
    <<[tool_id |-> 0, tool_name |-> 0, status |-> "pass",
       message |-> Msg("Test passed successfully", 0, 0),
       details |-> [ran |-> TRUE, exit_code |-> 0]]>>
\* A status document left by an earlier run.
StaleStatus == [status |-> "completed", progress |-> 100, message |-> Msg("All tests passed", 1, 0)]

InitGUI ==
    /\ manifest \in GUIManifests
    /\ config \in {"ok", "absent"}
    /\ listed \in SubSeqs(manifest.tools)
    /\ oldFile \in BOOLEAN
    /\ statusFile \in {NoStatus, StaleStatus}
    /\ statusLen = (IF statusFile = NoStatus THEN 0 ELSE StatusChunks)
    /\ resultsFile = NoFile
    /\ resultsWrites = 0
    /\ mode = "all"
    /\ argTool = 0
    /\ pc = "not_started"
    /\ EngineFresh
    /\ GuiIdle
    /\ ClockIdle

\* test_selected_tools / test_all_tools and start_testing, lines 148-226:
\* clear the previous results, start the orchestrator process with the
\* command line built from tool_ids, disable the start buttons, enable Stop,
\* start polling.  The status file and the logs directory are left as they are.
\* QProcess.start() of a program that cannot be executed (the interpreter of
\* the tester's own .venv is missing) starts no process: the process object
\* goes back to NotRunning and its finished signal is never emitted.
start_testing ==
    /\ gui_proc = "none" /\ ui.start_enabled /\ ~ui.closed
    /\ \E sel \in Selections(listed) :
          /\ selection' = sel
          /\ mode' = cmd_mode(sel)
          /\ argTool' = cmd_tool(sel)
    /\ gui_test_results' = <<>>
    /\ \E starts \in BOOLEAN :
          IF starts THEN gui_proc' = "running" /\ pc' = "main"
          ELSE gui_proc' = "failed_to_start" /\ UNCHANGED pc
    /\ ui' = [ui EXCEPT !.start_enabled = FALSE, !.stop_enabled = TRUE, !.polling = TRUE,
                        !.progress = 0, !.message = Msg("Testing in progress...", 0, 0),
                        !.passed = 0, !.failed = 0, !.skipped = 0]
    /\ UNCHANGED <<clockVars, manifest, config, listed, oldFile, gui_exc, polled, ret, pending, tools, i,
                   tool_info, result, test_results, probes, statusFile, statusLen,
                   progressLog, resultsFile, resultsWrites, spawned, exc, exit_code,
                   child, summaries, proc_code>>

\* What open + json.load in check_status meet: no file; a document that is
\* whole; a file that is empty or holds only part of a document, which
\* json.load rejects with JSONDecodeError; or an open that fails (IOError).
read_status(openFails) ==
    IF statusFile = NoStatus THEN [kind |-> "missing", doc |-> NoStatus]
    ELSE IF openFails THEN [kind |-> "IOError", doc |-> NoStatus]
    ELSE IF statusLen < StatusChunks THEN [kind |-> "JSONDecodeError", doc |-> NoStatus]
    ELSE [kind |-> "ok", doc |-> statusFile]

\* Variant of check_status whose except clause names IOError alone.
check_status_no_decode_catch ==
    /\ ui.polling /\ ~ui.closed /\ gui_exc = "none"
    /\ \E openFails \in BOOLEAN :
          LET r == read_status(openFails) IN
          /\ polled' = r.kind
          /\ IF r.kind = "ok"
             THEN /\ ui' = [ui EXCEPT !.progress = r.doc.progress, !.message = r.doc.message]
                  /\ UNCHANGED gui_exc
             ELSE IF r.kind \in {"missing", "IOError"}
             THEN UNCHANGED <<ui, gui_exc>>
             ELSE /\ gui_exc' = r.kind
                  /\ UNCHANGED ui
    /\ UNCHANGED <<clockVars, inputs, listed, selection, gui_proc, gui_test_results, oldFile, pc, ret,
                   pending, tools, i, tool_info, result, test_results, probes, statusFile,
                   statusLen, progressLog, resultsFile, resultsWrites, spawned, exc,
                   exit_code, child, summaries, proc_code>>

\* check_status, lines 244-260, on a timer tick: show progress and message
\* of a status document that can be read; a missing file and the caught
\* exceptions (JSONDecodeError, IOError) leave the display alone; any other
\* exception leaves the slot and ends the GUI.
check_status ==
    /\ ui.polling /\ ~ui.closed /\ gui_exc = "none"
    /\ \E openFails \in BOOLEAN :
          LET r == read_status(openFails) IN
          /\ polled' = r.kind
          /\ IF r.kind = "ok"
             THEN /\ ui' = [ui EXCEPT !.progress = r.doc.progress, !.message = r.doc.message]
                  /\ UNCHANGED gui_exc
             ELSE IF r.kind \in {"missing", "JSONDecodeError", "IOError"}
             THEN UNCHANGED <<ui, gui_exc>>
             ELSE /\ gui_exc' = r.kind
                  /\ UNCHANGED ui
    /\ UNCHANGED <<clockVars, inputs, listed, selection, gui_proc, gui_test_results, oldFile, pc, ret,
                   pending, tools, i, tool_info, result, test_results, probes, statusFile,
                   statusLen, progressLog, resultsFile, resultsWrites, spawned, exc,
                   exit_code, child, summaries, proc_code>>

\* The orchestrator process is running (QProcess.ProcessState.Running).
ProcessRunning == gui_proc = "running" /\ pc \notin {"exited", "killed"}

\* stop_testing, lines 327-340, confirmed by the user: QProcess.kill() ends
\* the orchestrator process at once.  Nothing is done about the tool's child
\* process, which the orchestrator started and which keeps running.
stop_testing ==
    /\ ~ui.closed /\ ui.stop_enabled /\ ProcessRunning
    /\ pc' = "killed"
    /\ proc_code' = 62097
    /\ ui' = [ui EXCEPT !.message = Msg("Testing stopped", 0, 0)]
    /\ UNCHANGED <<clockVars, inputs, listed, selection, gui_proc, gui_test_results, oldFile, gui_exc,
                   polled, ret, pending, tools, i, tool_info, result, test_results, probes,
                   statusFile, statusLen, progressLog, resultsFile, resultsWrites, spawned,
                   exc, exit_code, child, summaries>>

\* closeEvent, lines 391-408, with a run in progress and "quit anyway":
\* QProcess.kill() as in stop_testing, then the window closes.
closeEvent ==
    /\ ~ui.closed /\ ProcessRunning
    /\ pc' = "killed"
    /\ proc_code' = 62097
    /\ ui' = [ui EXCEPT !.closed = TRUE, !.polling = FALSE]
    /\ UNCHANGED <<clockVars, inputs, listed, selection, gui_proc, gui_test_results, oldFile, gui_exc,
                   polled, ret, pending, tools, i, tool_info, result, test_results, probes,
                   statusFile, statusLen, progressLog, resultsFile, resultsWrites, spawned,
                   exc, exit_code, child, summaries>>

\* load_test_results, lines 287-293: the latest results file by name - this
\* run's file when it exists, else an earlier run's - and what json.load
\* makes of it: "none" without any file, "bad" for an incomplete document.
latest_results ==
    IF resultsFile.exists
    THEN (IF resultsFile.written THEN [kind |-> "ok", content |-> resultsFile.content]
          ELSE [kind |-> "bad", content |-> <<>>])
    ELSE IF oldFile THEN [kind |-> "ok", content |-> OldResults]
    ELSE [kind |-> "none", content |-> <<>>]

\* on_testing_finished and load_test_results, lines 262-319, on the finished
\* signal of the process: stop polling, enable the start buttons, disable
\* Stop, progress 100, message by exit code, then load the latest results
\* file and show its counts.
on_testing_finished ==
    /\ ~ui.closed /\ gui_proc = "running" /\ pc \in {"exited", "killed"}
    /\ gui_proc' = "finished"
    /\ LET r == latest_results
           shown == IF r.kind = "ok" THEN r.content ELSE gui_test_results
       IN  /\ gui_test_results' = shown
           /\ ui' = [ui EXCEPT
                 !.polling = FALSE, !.start_enabled = TRUE, !.stop_enabled = FALSE,
                 !.progress = 100,
                 !.message = (IF proc_code = 0
                              THEN Msg("All tests completed successfully", 0, 0)
                              ELSE Msg("Testing completed with failures", 0, 0)),
                 !.passed = (IF r.kind = "ok" THEN CountStatus(r.content, "pass") ELSE @),
                 !.failed = (IF r.kind = "ok" THEN CountStatus(r.content, "fail") ELSE @),
                 !.skipped = (IF r.kind = "ok" THEN CountStatus(r.content, "skip") ELSE @)]
    /\ UNCHANGED <<clockVars, inputs, listed, selection, oldFile, gui_exc, polled, pc, ret, pending, tools, i,
                   tool_info, result, test_results, probes, statusFile, statusLen,
                   progressLog, resultsFile, resultsWrites, spawned, exc, exit_code, child,
                   summaries, proc_code>>

\* test_tool in the tool states the GUI is followed with.
test_tool_checks_gui == test_tool_probe(GUIEnvs)

\* ------------------------------------------------- results-file names
\* Several runs of the orchestrator against the wall clock, each reduced to
\* its start and to the moment generate_summary names and writes its results
\* file (engine.py lines 246-249).  How long a run takes is up to its tools.

InitClock ==
    /\ ClockIdle
    /\ mode = "all"
    /\ argTool = 0
    /\ manifest = [kind |-> "ok", tools |-> <<1>>]
    /\ config = "ok"
    /\ statusFile = NoStatus
    /\ statusLen = 0
    /\ resultsFile = NoFile
    /\ resultsWrites = 0
    /\ pc = "not_started"
    /\ EngineFresh
    /\ listed = <<>>
    /\ oldFile = FALSE
    /\ GuiIdle

\* Time passes.
clock_tick ==
    /\ now < MaxClock
    /\ now' = now + 1
    /\ UNCHANGED <<runs, logs_dir, guiVars, inputs, pc, ret, pending, tools, i, tool_info,
                   result, test_results, probes, statusFile, statusLen, progressLog,
                   resultsFile, resultsWrites, spawned, exc, exit_code, child, summaries,
                   proc_code>>

\* main: a run is started.
clock_run_start(r) ==
    /\ runs[r].state = "not_started"
    /\ runs' = [runs EXCEPT ![r] = [state |-> "running", started |-> now, name |-> 0]]
    /\ UNCHANGED <<now, logs_dir, guiVars, inputs, pc, ret, pending, tools, i, tool_info,
                   result, test_results, probes, statusFile, statusLen, progressLog,
                   resultsFile, resultsWrites, spawned, exc, exit_code, child, summaries,
                   proc_code>>

\* generate_summary, lines 246-249: the name of the results file is
\* test_results_<timestamp of now>.json, and open(.., 'w') creates the file
\* or replaces the one of that name.
clock_generate_summary(r) ==
    /\ runs[r].state = "running"
    /\ LET name == timestamp(now) IN
       /\ runs' = [runs EXCEPT ![r].state = "done", ![r].name = name]
       /\ logs_dir' = [logs_dir EXCEPT ![name] = r]
    /\ UNCHANGED <<now, guiVars, inputs, pc, ret, pending, tools, i, tool_info,
                   result, test_results, probes, statusFile, statusLen, progressLog,
                   resultsFile, resultsWrites, spawned, exc, exit_code, child, summaries,
                   proc_code>>

\* --------------------------------------------------------- specifications
\* The program with a log directory that stays writable.
NextWritable ==
    \/ main_init
    \/ main_exit
    \/ run_dispatch
    \/ test_all_tools_start
    \/ test_all_tools_load
    \/ load_studio_config_malformed
    \/ test_single_tool
    \/ test_tool_start
    \/ test_tool_checks
    \/ test_tool_wait
    \/ test_all_tools_append
    \/ test_all_tools_next
    \/ test_single_tool_append
    \/ generate_summary
    \/ write_results
    \/ write_results_dump
    \/ update_status
    \/ update_status_dump
    \/ run_exit_code
    \/ run_return_0
    \/ run_except
    \/ run_return_1

\* The program in any environment: writes may fail.
Next ==
    \/ NextWritable
    \/ write_results_fault
    \/ update_status_fault
    \/ main_crash

\* The GUI and the orchestrator process it starts, log directory writable.
NextGUI ==
    \/ start_testing
    \/ check_status
    \/ stop_testing
    \/ closeEvent
    \/ on_testing_finished
    \/ main_init
    \/ main_exit
    \/ run_dispatch
    \/ test_all_tools_start
    \/ test_all_tools_load
    \/ test_single_tool
    \/ test_tool_start
    \/ test_tool_checks_gui
    \/ test_tool_wait
    \/ test_all_tools_append
    \/ test_all_tools_next
    \/ test_single_tool_append
    \/ generate_summary
    \/ write_results
    \/ write_results_dump
    \/ update_status
    \/ update_status_dump
    \/ run_exit_code

Spec == Init /\ [][Next]_vars
SpecGUI == InitGUI /\ [][NextGUI]_vars

\* Runs against the wall clock.
NextClock ==
    \/ clock_tick
    \/ \E r \in Runs : clock_run_start(r)
    \/ \E r \in Runs : clock_generate_summary(r)

SpecClock == InitClock /\ [][NextClock]_vars
SpecWritable == Init /\ [][NextWritable]_vars

TypeOK ==
    /\ pc \in {"run", "test_all_tools", "all_load", "test_single_tool", "test_tool",
               "test_tool_checks", "all_append", "all_next", "single_append",
               "generate_summary", "write_results", "update_status", "run_exit_code",
               "return_0", "run_except", "return_1", "done", "propagated",
               "main", "exited", "status_dump", "child_wait", "results_dump",
               "not_started", "killed"}
    /\ exit_code \in {-1, 0, 1}
    /\ Len(test_results) <= (IF gui_proc = "none" THEN MaxTools ELSE MaxListed)
    /\ child \in {"none", "running", "exited", "killed"}
    /\ statusLen \in 0..StatusChunks
    /\ proc_code \in {-1, 0, 1, 62097}
    /\ gui_proc \in {"none", "running", "finished", "failed_to_start"}
    /\ gui_exc = "none"
    /\ polled \in {"none", "missing", "JSONDecodeError", "IOError", "ok"}
    /\ now \in 0..MaxClock
    /\ runs \in [Runs -> [state : {"not_started", "running", "done"},
                          started : 0..MaxClock, name : Timestamps]]
    /\ logs_dir \in [Timestamps -> {0} \cup Runs]

\* ----------------------------------------------------------------- claims
NoFail(rs) == CountStatus(rs, "fail") = 0
LastProgress == progressLog[Len(progressLog)]
UnknownTool == mode = "tool" /\ manifest.kind # "malformed" /\ FindTool(manifest.tools, argTool) = 0
NoToolsManifest == manifest.kind = "absent" \/ (manifest.kind = "ok" /\ manifest.tools = <<>>)
\* Results paired with what test_tool found: the appended ones, and the one
\* just returned and not yet appended.
Tested ==
    {[res |-> test_results[k], env |-> probes[k]] : k \in 1..Len(test_results)}
    \cup (IF pc \in {"all_append", "single_append"}
          THEN {[res |-> result, env |-> probes[Len(probes)]]} ELSE {})
\* The status document a reader finds on disk is whole.
StatusWhole == statusFile # NoStatus /\ statusLen = StatusChunks

\* C1: run-all over a manifest of N >= 1 entries: at every moment the results
\* are, in order, those of the first entries of the manifest, and when run
\* returns there are exactly N of them, whatever each tool's outcome was.
C1_RunAllResultsInManifestOrder ==
    (mode = "all" /\ manifest.kind = "ok" /\ Len(manifest.tools) >= 1) =>
        /\ Len(test_results) <= Len(manifest.tools)
        /\ \A k \in 1..Len(test_results) : test_results[k].tool_id = manifest.tools[k]
        /\ (pc \in {"generate_summary", "done"} => Len(test_results) = Len(manifest.tools))
        /\ (resultsFile.written => Len(resultsFile.content) = Len(manifest.tools))
C1_Witness ==
    /\ mode = "all" /\ pc = "done" /\ Len(manifest.tools) = MaxTools
    /\ manifest.tools[1] # 1
    /\ Len(test_results) = MaxTools
    /\ probes[1].child.kind = "spawn_fault"
    /\ test_results[1].status = "fail"
    /\ test_results[2].status = "skip"

\* C2 (as claimed): the progress values written to the status file within a
\* run never decrease, and a run that ends completed ends with progress 100.
C2_ProgressNonDecreasing ==
    /\ \A k \in 1..(Len(progressLog) - 1) : progressLog[k] <= progressLog[k + 1]
    /\ (pc = "done" /\ statusFile.status \in {"completed", "completed_with_errors"}
            => LastProgress = 100)

\* C3 (as claimed): run returns 0 exactly when it ran in self-test mode or no
\* result has status fail, and 1 otherwise.
C3_ExitCodeFromFailsOnly ==
    pc = "done" => (exit_code = 0 <=> (mode = "test" \/ NoFail(test_results)))
\* C3 (amended): run returns 0 exactly when no fault reached its top-level
\* handler and no result has status fail, and 1 otherwise.
C3_ExitCode ==
    pc = "done" =>
        /\ exit_code \in {0, 1}
        /\ (exit_code = 0 <=> (exc = NoExc /\ NoFail(test_results)))
        /\ (~NoFail(test_results) => exit_code = 1)
C3_Witness ==
    /\ pc = "done" /\ exit_code = 1 /\ exc.kind = "JSONDecodeError"
    /\ NoFail(test_results)

\* C4 (as claimed): single-tool mode with an id the manifest does not hold
\* ends with no result, status error naming the id, no results file, and
\* completion code 1.
C4_UnknownToolReturns1 ==
    (UnknownTool /\ pc = "done") =>
        /\ test_results = <<>>
        /\ statusFile.status = "error"
        /\ statusFile.message = Msg("Tool not found", argTool, 0)
        /\ ~resultsFile.exists
        /\ exit_code = 1

\* C5 (as claimed): a tool whose engine.py does not exist gets status skip
\* in every filesystem state, a missing root included.
C5_NoEntryPointAlwaysSkip ==
    \A t \in Tested : ~t.env.engine => t.res.status = "skip"
\* C5 (amended): a tool whose root exists and whose engine.py does not exist
\* gets status skip, whatever else exists under the root.
C5_NoEntryPointSkip ==
    \A t \in Tested : (t.env.root /\ ~t.env.engine) => t.res.status = "skip"
C5_Witness ==
    \E t \in Tested : t.env.root /\ ~t.env.engine /\ ~t.env.config /\ ~t.env.venv
                      /\ t.res.status = "skip"

\* C6: with all four paths present, the result is pass exactly when the child
\* exits 0 within the time bound; a child over the bound gives fail "timed
\* out" even with exit code 0; a non-zero exit gives fail with the code.
C6_Classification ==
    \A t \in Tested : AllPresent(t.env) =>
        LET c == t.env.child IN
        /\ (t.res.status = "pass" <=> (c.kind = "exit" /\ c.code = 0 /\ c.dur <= TIMEOUT))
        /\ (c.kind = "exit" /\ c.dur > TIMEOUT =>
                t.res.status = "fail" /\ t.res.message = Msg("Test timed out (>30s)", 0, 0))
        /\ (c.kind = "exit" /\ c.dur <= TIMEOUT /\ c.code # 0 =>
                /\ t.res.status = "fail"
                /\ t.res.message = Msg("Test failed with exit code", c.code, 0)
                /\ t.res.message # Msg("Test timed out (>30s)", 0, 0))
C6_Witness ==
    /\ \E t \in Tested : /\ t.env.child.kind = "exit" /\ t.env.child.code = 0
                         /\ t.env.child.dur > TIMEOUT /\ t.res.status = "fail"
    /\ \E t \in Tested : /\ t.env.child.kind = "exit" /\ t.env.child.code = 0
                         /\ t.env.child.dur = TIMEOUT /\ t.res.status = "pass"

\* C7: the status generate_summary writes has progress 100 and is completed
\* when no result is fail, completed_with_errors otherwise; a run that wrote
\* its results ends with that status and with the matching completion code.
C7_SummaryStatus ==
    LET expected == IF NoFail(test_results) THEN "completed" ELSE "completed_with_errors" IN
    /\ (pc = "write_results" => statusFile.status = expected /\ statusFile.progress = 100)
    /\ (pc = "done" /\ resultsFile.written =>
            /\ statusFile.status = expected /\ statusFile.progress = 100
            /\ exit_code = (IF expected = "completed" THEN 0 ELSE 1))
C7_Witness ==
    /\ mode = "all" /\ pc = "done" /\ Len(test_results) = 2
    /\ probes[1].child.kind = "exit" /\ probes[1].child.code = 1 /\ probes[1].child.dur < TIMEOUT
    /\ probes[2].child.kind = "exit" /\ probes[2].child.code = 0 /\ probes[2].child.dur < TIMEOUT
    /\ test_results[1].status = "fail" /\ test_results[2].status = "pass"
    /\ statusFile.status = "completed_with_errors" /\ statusFile.progress = 100
    /\ exit_code = 1

\* C8 (as claimed): test_tool never raises, the status-file write included.
C8_TestToolNeverRaises == exc.from # "test_tool"

\* C9 (as claimed): a fault raised during run never leaves run: the handler
\* writes status error and run returns 1.
C9_RunNeverPropagates ==
    /\ pc # "propagated"
    /\ (pc = "done" /\ exc # NoExc =>
            exit_code = 1 /\ statusFile.status = "error"
            /\ statusFile.message = Msg(exc.kind, 0, 0))

\* C10: run-all with a missing manifest or an empty tools list raises
\* nothing, tests nothing, starts no child, writes no results file, and ends
\* with status error.
C10_NoToolsIsReportedError ==
    (config = "ok" /\ mode = "all" /\ NoToolsManifest) =>
        /\ exc = NoExc /\ pc \notin {"run_except", "propagated"}
        /\ test_results = <<>> /\ probes = <<>>
        /\ spawned = 0
        /\ ~resultsFile.exists /\ ~resultsFile.written /\ resultsWrites = 0
        /\ (pc = "done" => statusFile.status = "error"
                           /\ statusFile.message = Msg("No tools to test", 0, 0))
C10_Witness ==
    /\ mode = "all" /\ manifest.kind = "absent" /\ pc = "done"
    /\ statusFile.status = "error" /\ test_results = <<>>

\* C11 (as claimed): run-all and run-one that return without a fault have
\* invoked Summary Generation, unless the id of run-one is unknown.
C11_SummaryAlwaysInvoked ==
    (pc = "done" /\ mode \in {"all", "tool"} /\ exc = NoExc /\ ~UnknownTool)
        => summaries = 1
\* C11 (amended): Summary Generation is invoked at most once, only after at
\* least one tool was tested, and a run-all or run-one that returns without a
\* fault has invoked it exactly when it tested at least one tool: it is
\* skipped for an unknown id and for a run-all that finds no tools.
C11_SummaryIffToolTested ==
    /\ summaries <= 1
    /\ (summaries = 1 => Len(test_results) >= 1)
    /\ (pc = "done" /\ exc = NoExc => (summaries = 1 <=> Len(test_results) >= 1))
    /\ (pc = "done" /\ exc = NoExc /\ mode = "all" /\ NoToolsManifest => summaries = 0)
    /\ (pc = "done" /\ exc = NoExc /\ UnknownTool => summaries = 0)
C11_Witness ==
    /\ pc = "done" /\ mode = "all" /\ manifest.kind = "ok" /\ manifest.tools = <<>>
    /\ exc = NoExc /\ summaries = 0 /\ statusFile.status = "error"

\* C12 (as claimed): the results file is written once, after every tool was
\* tested, and whenever it exists it holds the complete result sequence.
C12_ResultsFileAtomic ==
    /\ resultsWrites <= 1
    /\ (resultsFile.exists =>
            /\ resultsFile.written
            /\ resultsFile.content = test_results
            /\ Len(test_results) = (IF mode = "all" THEN Len(tools) ELSE 1))

\* C15: a child process runs only while test_tool waits for it; a child over
\* the time bound has been killed when test_tool returns its timeout result,
\* and no child runs once test_tool or run has returned.
C15_NoChildLeftRunning ==
    /\ (child = "running" => pc = "child_wait")
    /\ (pc \in {"done", "propagated", "exited"} => child # "running")
    /\ (pc \in {"all_append", "single_append"} /\ AllPresent(probes[Len(probes)])
          /\ probes[Len(probes)].child.kind = "exit" =>
            IF probes[Len(probes)].child.dur > TIMEOUT
            THEN child = "killed" /\ result.message = Msg("Test timed out (>30s)", 0, 0)
            ELSE child = "exited")
C15_Witness ==
    /\ pc = "single_append" /\ child = "killed"
    /\ probes[Len(probes)].child.dur > TIMEOUT
    /\ result.status = "fail" /\ result.message = Msg("Test timed out (>30s)", 0, 0)

\* C17: in self-test mode run never reaches the manifest or a tool: nothing
\* is loaded, tested, spawned or saved, the status written is test_mode with
\* progress 100 and run returns 0, whatever the manifest is.
C17_SelfTestTouchesNothing ==
    (config = "ok" /\ mode = "test") =>
        /\ pc \in {"main", "run", "update_status", "status_dump", "return_0", "done", "exited"}
        /\ tools = <<>> /\ test_results = <<>> /\ probes = <<>>
        /\ spawned = 0 /\ child = "none" /\ summaries = 0
        /\ ~resultsFile.exists /\ resultsWrites = 0
        /\ exc = NoExc
        /\ (pc \in {"done", "exited"} =>
                /\ exit_code = 0
                /\ StatusWhole
                /\ statusFile = [status |-> "test_mode", progress |-> 100,
                                 message |-> Msg("Test mode: Engine operational", 0, 0)])
C17_Witness ==
    /\ mode = "test" /\ manifest.kind = "malformed" /\ pc = "done"
    /\ exit_code = 0 /\ statusFile.status = "test_mode" /\ statusFile.progress = 100

\* C18 (as claimed): with the orchestrator's own configuration absent or
\* malformed the process exits non-zero before any tool is tested, and the
\* status file reports error.
C18_ConfigFaultReported ==
    (config # "ok" /\ pc = "exited") =>
        /\ proc_code # 0
        /\ probes = <<>>
        /\ StatusWhole /\ statusFile.status = "error"

\* Runs that have written their results file.
DoneRuns == {r \in Runs : runs[r].state = "done"}
\* C13: two runs started more than one second apart have written results
\* files of different names, and each run's file still holds its results.
C13_NamesNeverCollide ==
    \A a, b \in DoneRuns :
        (runs[b].started - runs[a].started > TicksPerSecond) =>
            /\ runs[a].name # runs[b].name
            /\ logs_dir[runs[a].name] = a
            /\ logs_dir[runs[b].name] = b

\* A check_status step that could not read a whole status document.
C14_PollStep == UNCHANGED <<pc, gui_proc, statusFile, statusLen>> /\ polled' # "ok"
\* C14: whenever check_status polls while the status file is missing, empty
\* or holds part of a document (the orchestrator truncates and then writes,
\* without a lock), the displayed progress and message stay as they were and
\* no exception leaves check_status.  A poll is the only step that leaves the
\* orchestrator, the process handle and the status file where they are.
C14_PollTolerant ==
    [][C14_PollStep => (ui' = ui /\ gui_exc' = "none")]_vars
\* A poll has met a partly written document while an earlier document's
\* progress was on display, and the GUI goes on polling.
C14_Witness ==
    /\ polled = "JSONDecodeError"
    /\ statusFile # NoStatus /\ statusLen < StatusChunks
    /\ ui.polling /\ ui.progress > 0 /\ gui_exc = "none"

\* C16: once stop_testing or closeEvent has killed the orchestrator process,
\* no child process of a tool is running and the abandoned run has no
\* results file.
C16_CancelKillsChild ==
    pc = "killed" => (child # "running" /\ ~resultsFile.exists)

\* The ids of the tools the run has results for.
TestedIds == {test_results[k].tool_id : k \in 1..Len(test_results)}
\* C19: a run started with a selection S of tool ids never tests a tool
\* outside S, and when its process has exited it has tested exactly S; a run
\* started with no selection has tested every tool of the manifest.
C19_SelectedOnlyTested ==
    (gui_proc # "none" /\ config = "ok") =>
        /\ (~selection.all => TestedIds \subseteq selection.ids)
        /\ (pc = "exited" =>
              TestedIds = (IF selection.all THEN Range(manifest.tools) ELSE selection.ids))

\* C20: the checks run in the order root, engine.py, config.json, runtime;
\* the first missing path alone decides the result (fail, skip, fail, fail)
\* whatever exists after it, and a child is started only when all four exist.
Spawnable == {k \in 1..Len(probes) : AllPresent(probes[k])}
C20_ChecksInOrder ==
    /\ \A t \in Tested :
          /\ (~t.env.root =>
                t.res.status = "fail" /\ t.res.message.text = "Tool directory not found")
          /\ (t.env.root /\ ~t.env.engine =>
                t.res.status = "skip" /\ t.res.message.text = "No engine.py found (GUI-only tool)")
          /\ (t.env.root /\ t.env.engine /\ ~t.env.config =>
                t.res.status = "fail" /\ t.res.message.text = "No config.json found")
          /\ (t.env.root /\ t.env.engine /\ t.env.config /\ ~t.env.venv =>
                t.res.status = "fail" /\ t.res.message.text = "Virtual environment not found")
          /\ (~AllPresent(t.env) => ~t.res.details.ran)
    /\ spawned <= Cardinality(Spawnable)
    /\ (pc = "child_wait" => AllPresent(probes[Len(probes)]))
C20_Witness ==
    /\ spawned = 0 /\ child = "none"
    /\ \E t \in Tested : /\ t.env.root /\ t.env.engine /\ ~t.env.config /\ ~t.env.venv
                         /\ t.res.status = "fail"
                         /\ t.res.message.text = "No config.json found"
NumWithStatus(s) == Cardinality({k \in 1..Len(test_results) : test_results[k].status = s})
\* C22: every result test_tool returns, and every result in the run's
\* sequence, has status pass, fail or skip, never unknown; so the three
\* counts generate_summary takes add up to the number of results.
C22_StatusDecided ==
    /\ \A t \in Tested : t.res.status \in {"pass", "fail", "skip"}
    /\ NumWithStatus("pass") + NumWithStatus("fail") + NumWithStatus("skip") = Len(test_results)
    /\ CountStatus(test_results, "pass") + CountStatus(test_results, "fail")
         + CountStatus(test_results, "skip") = Len(test_results)
\* generate_summary is reached with a skip and a result of a child that could
\* not be started.
C22_Witness ==
    /\ pc = "generate_summary" /\ Len(test_results) = 2
    /\ test_results[1].status = "skip"
    /\ AllPresent(probes[2]) /\ probes[2].child.kind = "spawn_fault"
    /\ test_results[2].status = "fail"

\* C23: a run returns completion code 0 only when the last status it wrote
\* is completed or test_mode, so the GUI never shows "All tests completed
\* successfully" for a run whose last status is error or
\* completed_with_errors.
C23_ZeroOnlyAfterCompleted ==
    /\ (pc = "done" /\ exit_code = 0 => pending.status \in {"completed", "test_mode"})
    /\ (gui_proc = "finished" /\ ui.message = Msg("All tests completed successfully", 0, 0)
            => pending.status \in {"completed", "test_mode"})

\* C24: whenever the status file holds, whole, a status completed or
\* completed_with_errors written by the current run, the results file of
\* that run exists.
C24_ResultsBeforeTerminalStatus ==
    (StatusWhole /\ progressLog # <<>>
     /\ statusFile.status \in {"completed", "completed_with_errors"})
        => resultsFile.exists

\* C25: when on_testing_finished has run, the results and the counters on
\* display are those of the run that just finished - the content of its
\* results file, or nothing when it wrote none - and never those of a
\* results file an earlier run left.
C25_ShowsOwnResults ==
    gui_proc = "finished" =>
        /\ gui_test_results = (IF resultsFile.written THEN resultsFile.content ELSE <<>>)
        /\ gui_test_results # OldResults
        /\ ui.passed = CountStatus(gui_test_results, "pass")
        /\ ui.failed = CountStatus(gui_test_results, "fail")
        /\ ui.skipped = CountStatus(gui_test_results, "skip")

\* C26: the start buttons are disabled, the Stop button is enabled and the
\* status file is polled exactly while an orchestrator process started by
\* the GUI exists whose finished signal has not been handled yet (from
\* start_testing to on_testing_finished, a kill included); the GUI has at
\* most that one process.
C26_ButtonsTrackProcess ==
    ~ui.closed =>
        LET inRun == gui_proc = "running" IN
        /\ ui.start_enabled = ~inRun
        /\ ui.stop_enabled = inRun
        /\ ui.polling = inRun
        /\ (pc \notin {"not_started"} => gui_proc \in {"running", "finished"})

====
